---- MODULE Spec2Model ----
(***************************************************************************)
(* CheckOff: the task list screen of app/(tabs)/index.tsx.                 *)
(*                                                                         *)
(* The component keeps three pieces of React state (tasks, inputValue,     *)
(* filter).  A handler never changes state directly: every setX call       *)
(* queues an update on the hook, and the next render folds the queued      *)
(* updates into the committed state and then runs the effects whose        *)
(* dependencies changed.  AsyncStorage calls are asynchronous: the read or *)
(* write reaches the store some time after the call that issued it.        *)
(***************************************************************************)
EXTENDS Integers, Sequences, FiniteSets, TLC

\* ------------------------------------------------------------------ bounds
MaxClock  == 2    \* Date.now() returns a value in 1..MaxClock
MaxEvents == 4    \* user events (presses, text changes) in one behaviour
MaxList   == 3    \* longest list a process finds in the store (ViewSpec)

\* --------------------------------------------------------------- constants
STORAGE_KEY == "checkoff_tasks"

\* The texts the user types: empty, blank, plain, and padded with blanks.
InputValues ==
  {<< >>, <<" ">>, <<"a">>, <<" ", "b", " ">>}

Filters == {"all", "active", "completed"}

VARIABLES
  tasks,          \* committed value of useState<TodoItem[]>
  inputValue,     \* committed value of useState('')
  filter,         \* committed value of useState<Filter>('all')
  pendingTasks,   \* queued setTasks calls, oldest first
  pendingInput,   \* queued setInputValue call (the last one wins), or << >>
  pendingFilter,  \* queued setFilter call (the last one wins), or << >>
  store,          \* AsyncStorage: key -> << >> (no item) or <<string>>
  loadState,      \* loadData: "reading" (getItem in flight), "read", "done"
  storedTasks,    \* loadData's local: what getItem returned
  saves,          \* strings of the setItem calls still in flight
  warnings,       \* console.warn output of this process
  events,         \* user events so far
  hydrated,       \* << >>, or <<list>>: the list the previous process left
                  \* fully saved, while this process has taken no mutation
  completedCount, \* value held by useMemo(..., [tasks])
  filteredTasks   \* value held by useMemo(..., [filter, tasks])

\* The two memoized values of the last render.
memos == <<completedCount, filteredTasks>>

vars == <<tasks, inputValue, filter, pendingTasks, pendingInput, pendingFilter,
          store, loadState, storedTasks, saves, warnings, events, hydrated,
          completedCount, filteredTasks>>

\* ---------------------------------------------------------- pure functions

RECURSIVE TrimStart(_)
TrimStart(s) ==
  IF s # << >> /\ Head(s) = " " THEN TrimStart(Tail(s)) ELSE s

RECURSIVE TrimEnd(_)
TrimEnd(s) ==
  IF s # << >> /\ s[Len(s)] = " " THEN TrimEnd(SubSeq(s, 1, Len(s) - 1)) ELSE s

\* trimStart in the place of trim.
Trim_StartOnly(s) == TrimStart(s)

\* String.prototype.trim
Trim(s) == TrimEnd(TrimStart(s))

\* Date.now().toString()
NewId(now) == ToString(now)

Ids == {NewId(c) : c \in 1..MaxClock}

TodoItem(id, title, completed) ==
  [id |-> id, title |-> title, completed |-> completed]

\* JSON.stringify(nextTasks): one <<id, title, completed>> triple per task.
JSONStringify(ts) ==
  [wellFormed |-> TRUE,
   items |-> [i \in 1..Len(ts) |-> <<ts[i].id, ts[i].title, ts[i].completed>>]]

\* JSON.parse succeeds on a well-formed string only.
ParseThrows(str) == ~str.wellFormed

JSONParse(str) ==
  [i \in 1..Len(str.items) |->
     TodoItem(str.items[i][1], str.items[i][2], str.items[i][3])]

\* A stored string that is not JSON.
CorruptString == [wellFormed |-> FALSE, items |-> << >>]

\* A stored string that is JSON but not a list of tasks as addTask makes them:
\* '[{"id":"1","title":"","completed":false}]'.
MalformedListString == JSONStringify(<<TodoItem("1", << >>, FALSE)>>)

\* The queued setTasks calls.
NoList == << >>
AddUpdate(newTask) ==
  [kind |-> "add", id |-> newTask.id, title |-> newTask.title, list |-> NoList]
ToggleUpdate(id) ==
  [kind |-> "toggle", id |-> id, title |-> << >>, list |-> NoList]
DeleteUpdate(id) ==
  [kind |-> "delete", id |-> id, title |-> << >>, list |-> NoList]
ClearUpdate ==
  [kind |-> "clear", id |-> "", title |-> << >>, list |-> NoList]
SetUpdate(list) ==
  [kind |-> "set", id |-> "", title |-> << >>, list |-> list]

\* The new task goes last.
PrependTask_Append(newTask, currentTasks) == currentTasks \o <<newTask>>

\* Not a functional updater: setTasks([newTask, ...tasks]) with the tasks of
\* the render the handler was made in.
PrependTask_StaleClosure(newTask, currentTasks) == <<newTask>> \o tasks

\* (currentTasks) => [newTask, ...currentTasks]
PrependTask(newTask, currentTasks) == <<newTask>> \o currentTasks

\* The flag is set, not flipped.
ToggleIn_SetTrue(id, currentTasks) ==
  [i \in 1..Len(currentTasks) |->
     IF currentTasks[i].id = id
     THEN [currentTasks[i] EXCEPT !.completed = TRUE]
     ELSE currentTasks[i]]

\* currentTasks.map(task => task.id === id ? {...task, completed: !task.completed} : task)
ToggleIn(id, currentTasks) ==
  [i \in 1..Len(currentTasks) |->
     IF currentTasks[i].id = id
     THEN [currentTasks[i] EXCEPT !.completed = ~@]
     ELSE currentTasks[i]]

\* The test is the wrong way round: the matching tasks are the ones kept.
DeleteFrom_Inverted(id, currentTasks) ==
  SelectSeq(currentTasks, LAMBDA t : t.id = id)

\* currentTasks.filter(task => task.id !== id)
DeleteFrom(id, currentTasks) == SelectSeq(currentTasks, LAMBDA t : t.id # id)

\* The test is the wrong way round: the completed tasks are the ones kept.
WithoutCompleted_Inverted(currentTasks) ==
  SelectSeq(currentTasks, LAMBDA t : t.completed)

\* currentTasks.filter(task => !task.completed)
WithoutCompleted(currentTasks) ==
  SelectSeq(currentTasks, LAMBDA t : ~t.completed)

\* One queued setTasks call applied to the current list.
ApplyUpdate(u, currentTasks) ==
  CASE u.kind = "add" ->
         PrependTask(TodoItem(u.id, u.title, FALSE), currentTasks)
    [] u.kind = "toggle" -> ToggleIn(u.id, currentTasks)
    [] u.kind = "delete" -> DeleteFrom(u.id, currentTasks)
    [] u.kind = "clear"  -> WithoutCompleted(currentTasks)
    [] u.kind = "set"    -> u.list

\* React folds the hook's queue into the state, oldest update first.
RECURSIVE ApplyAll(_, _)
ApplyAll(queue, currentTasks) ==
  IF queue = << >> THEN currentTasks
  ELSE ApplyAll(Tail(queue), ApplyUpdate(Head(queue), currentTasks))

\* ------------------------------------------------------------------- state

LoadWarning == "Unable to load tasks:"
SaveWarning == "Unable to save tasks:"

\* First render and its two mount effects: loadData() has called getItem and
\* saveData([]) has called setItem; neither has reached the store yet.
Init ==
  /\ tasks = << >>
  /\ inputValue = << >>
  /\ filter = "all"
  /\ pendingTasks = << >>
  /\ pendingInput = << >>
  /\ pendingFilter = << >>
  /\ store \in {[k \in {STORAGE_KEY} |-> << >>],
                [k \in {STORAGE_KEY} |-> <<CorruptString>>]}
  /\ loadState = "reading"
  /\ storedTasks = << >>
  /\ saves = {JSONStringify(<< >>)}
  /\ warnings = {}
  /\ events = 0
  /\ hydrated = << >>
  /\ completedCount = 0
  /\ filteredTasks = << >>

\* ----------------------------------------------------------- user handlers

\* onChangeText={setInputValue}
OnChangeText(text) ==
  /\ events < MaxEvents
  /\ events' = events + 1
  /\ pendingInput' = <<text>>
  /\ UNCHANGED <<tasks, inputValue, filter, pendingTasks, pendingFilter, store,
                 loadState, storedTasks, saves, warnings, hydrated>>
  /\ UNCHANGED memos

\* The emptiness test is made on the raw input, not on the trimmed one.
addTask_RawTest(now) ==
  /\ events < MaxEvents
  /\ events' = events + 1
  /\ LET trimmedValue == Trim(inputValue) IN
       IF inputValue = << >>
       THEN UNCHANGED <<pendingTasks, pendingInput, hydrated>>
       ELSE /\ pendingTasks' =
                 Append(pendingTasks,
                        AddUpdate(TodoItem(NewId(now), trimmedValue, FALSE)))
            /\ pendingInput' = << << >> >>
            /\ hydrated' = << >>
  /\ UNCHANGED <<tasks, inputValue, filter, pendingFilter, store, loadState,
                 storedTasks, saves, warnings>>
  /\ UNCHANGED memos

addTask(now) ==
  /\ events < MaxEvents
  /\ events' = events + 1
  /\ LET trimmedValue == Trim(inputValue) IN
       IF trimmedValue = << >>
       THEN UNCHANGED <<pendingTasks, pendingInput, hydrated>>
       ELSE /\ pendingTasks' =
                 Append(pendingTasks,
                        AddUpdate(TodoItem(NewId(now), trimmedValue, FALSE)))
            /\ pendingInput' = << << >> >>
            /\ hydrated' = << >>
  /\ UNCHANGED <<tasks, inputValue, filter, pendingFilter, store, loadState,
                 storedTasks, saves, warnings>>
  /\ UNCHANGED memos

toggleTask(id) ==
  /\ events < MaxEvents
  /\ events' = events + 1
  /\ pendingTasks' = Append(pendingTasks, ToggleUpdate(id))
  /\ hydrated' = << >>
  /\ UNCHANGED <<tasks, inputValue, filter, pendingInput, pendingFilter, store,
                 loadState, storedTasks, saves, warnings>>
  /\ UNCHANGED memos

deleteTask(id) ==
  /\ events < MaxEvents
  /\ events' = events + 1
  /\ pendingTasks' = Append(pendingTasks, DeleteUpdate(id))
  /\ hydrated' = << >>
  /\ UNCHANGED <<tasks, inputValue, filter, pendingInput, pendingFilter, store,
                 loadState, storedTasks, saves, warnings>>
  /\ UNCHANGED memos

clearCompleted ==
  /\ events < MaxEvents
  /\ events' = events + 1
  /\ pendingTasks' = Append(pendingTasks, ClearUpdate)
  /\ hydrated' = << >>
  /\ UNCHANGED <<tasks, inputValue, filter, pendingInput, pendingFilter, store,
                 loadState, storedTasks, saves, warnings>>
  /\ UNCHANGED memos

\* onPress={() => setFilter(item)}
setFilter(f) ==
  /\ events < MaxEvents
  /\ events' = events + 1
  /\ pendingFilter' = <<f>>
  /\ UNCHANGED <<tasks, inputValue, filter, pendingTasks, pendingInput, store,
                 loadState, storedTasks, saves, warnings, hydrated>>
  /\ UNCHANGED memos

\* ------------------------------------------------------------------- React

\* A stale closure: the effect saves the list of the render before.
saveData_Stale(nextTasks) == saves \cup {JSONStringify(tasks)}

\* saveData(nextTasks) up to its await: setItem is called with the string.
saveData(nextTasks) == saves \cup {JSONStringify(nextTasks)}

\* tasks.filter((task) => task.completed).length
CountCompleted(ts) == Len(SelectSeq(ts, LAMBDA t : t.completed))

\* The body of the filteredTasks memo.
FilterTasks(f, ts) ==
  IF f = "active" THEN SelectSeq(ts, LAMBDA t : ~t.completed)
  ELSE IF f = "completed" THEN SelectSeq(ts, LAMBDA t : t.completed)
  ELSE ts

\* useMemo(..., [tasks]): computed again when this render has a new tasks
\* array, which is whenever a setTasks call was queued.
useMemoCompletedCount(nextTasks) ==
  IF pendingTasks # << >> THEN CountCompleted(nextTasks) ELSE completedCount

\* filter is missing from the dependencies.
useMemoFilteredTasks_TasksOnly(nextFilter, nextTasks) ==
  IF pendingTasks # << >>
  THEN FilterTasks(nextFilter, nextTasks)
  ELSE filteredTasks

\* useMemo(..., [filter, tasks]): computed again when filter or tasks changed.
useMemoFilteredTasks(nextFilter, nextTasks) ==
  IF pendingTasks # << >> \/ nextFilter # filter
  THEN FilterTasks(nextFilter, nextTasks)
  ELSE filteredTasks

\* Math.floor in the place of Math.round.
MathRound_Floor(num, den) == num \div den

\* Math.round(num / den) for num >= 0 and den > 0: halves go up.
MathRound(num, den) == (2 * num + den) \div (2 * den)

\* The statistics a render computes.
totalCount == Len(tasks)
activeCount == totalCount - completedCount
completionRate ==
  IF totalCount # 0 THEN MathRound(completedCount * 100, totalCount) ELSE 0

\* The list the next render commits.
NextTasks == ApplyAll(pendingTasks, tasks)

\* The save effect depends on [tasks, filter]: a filter change saves too.
Render_SavesOnFilter ==
  /\ pendingTasks # << >> \/ pendingInput # << >> \/ pendingFilter # << >>
  /\ tasks' = NextTasks
  /\ inputValue' = IF pendingInput # << >> THEN pendingInput[1] ELSE inputValue
  /\ filter' = IF pendingFilter # << >> THEN pendingFilter[1] ELSE filter
  /\ pendingTasks' = << >>
  /\ pendingInput' = << >>
  /\ pendingFilter' = << >>
  /\ saves' = IF pendingTasks # << >> \/ pendingFilter # << >>
              THEN saveData(tasks')
              ELSE saves
  /\ completedCount' = useMemoCompletedCount(tasks')
  /\ filteredTasks' = useMemoFilteredTasks(filter', tasks')
  /\ UNCHANGED <<store, loadState, storedTasks, warnings, events, hydrated>>

\* A render: every queued update is folded into the state; tasks is a new
\* array whenever a setTasks call was queued, so the [tasks] effect then runs
\* saveData(tasks), which calls setItem.
Render ==
  /\ pendingTasks # << >> \/ pendingInput # << >> \/ pendingFilter # << >>
  /\ tasks' = NextTasks
  /\ inputValue' = IF pendingInput # << >> THEN pendingInput[1] ELSE inputValue
  /\ filter' = IF pendingFilter # << >> THEN pendingFilter[1] ELSE filter
  /\ pendingTasks' = << >>
  /\ pendingInput' = << >>
  /\ pendingFilter' = << >>
  /\ saves' = IF pendingTasks # << >> THEN saveData(tasks') ELSE saves
  /\ completedCount' = useMemoCompletedCount(tasks')
  /\ filteredTasks' = useMemoFilteredTasks(filter', tasks')
  /\ UNCHANGED <<store, loadState, storedTasks, warnings, events, hydrated>>

\* ------------------------------------------------------------ AsyncStorage

\* getItem reads the store.
GetItemResolves ==
  /\ loadState = "reading"
  /\ storedTasks' = store[STORAGE_KEY]
  /\ loadState' = "read"
  /\ UNCHANGED <<tasks, inputValue, filter, pendingTasks, pendingInput,
                 pendingFilter, store, saves, warnings, events, hydrated>>
  /\ UNCHANGED memos

\* getItem rejects: loadData's catch logs and returns.
GetItemRejects ==
  /\ loadState = "reading"
  /\ loadState' = "done"
  /\ warnings' = warnings \cup {LoadWarning}
  /\ UNCHANGED <<tasks, inputValue, filter, pendingTasks, pendingInput,
                 pendingFilter, store, storedTasks, saves, events, hydrated>>
  /\ UNCHANGED memos

\* loadData after its await.
loadData ==
  /\ loadState = "read"
  /\ loadState' = "done"
  /\ IF storedTasks = << >>
     THEN UNCHANGED <<pendingTasks, warnings>>
     ELSE IF ParseThrows(storedTasks[1])
          THEN /\ warnings' = warnings \cup {LoadWarning}
               /\ UNCHANGED pendingTasks
          ELSE /\ pendingTasks' =
                    Append(pendingTasks, SetUpdate(JSONParse(storedTasks[1])))
               /\ UNCHANGED warnings
  /\ storedTasks' = << >>
  /\ UNCHANGED <<tasks, inputValue, filter, pendingInput, pendingFilter, store,
                 saves, events, hydrated>>
  /\ UNCHANGED memos

\* A setItem in flight writes the store; saveData's await then returns.
SetItemResolves(str) ==
  /\ str \in saves
  /\ saves' = saves \ {str}
  /\ store' = [store EXCEPT ![STORAGE_KEY] = <<str>>]
  /\ UNCHANGED <<tasks, inputValue, filter, pendingTasks, pendingInput,
                 pendingFilter, loadState, storedTasks, warnings, events, hydrated>>
  /\ UNCHANGED memos

\* The catch logs and leaves the write in flight, to be made again.
SetItemRejects_Retries(str) ==
  /\ str \in saves
  /\ saves' = saves
  /\ warnings' = warnings \cup {SaveWarning}
  /\ UNCHANGED <<tasks, inputValue, filter, pendingTasks, pendingInput,
                 pendingFilter, store, loadState, storedTasks, events, hydrated>>
  /\ UNCHANGED memos

\* A setItem in flight rejects: saveData's catch logs and returns.
SetItemRejects(str) ==
  /\ str \in saves
  /\ saves' = saves \ {str}
  /\ warnings' = warnings \cup {SaveWarning}
  /\ UNCHANGED <<tasks, inputValue, filter, pendingTasks, pendingInput,
                 pendingFilter, store, loadState, storedTasks, events, hydrated>>
  /\ UNCHANGED memos

\* ------------------------------------------------------------- environment

\* Every save the process issued has completed without a failure, and the
\* store holds the committed list.
SavesCompleted ==
  /\ pendingTasks = << >>
  /\ saves = {}
  /\ SaveWarning \notin warnings
  /\ store[STORAGE_KEY] = <<JSONStringify(tasks)>>

\* The process stops and starts again: the store is all that is kept, and the
\* new process is at its first render with both mount effects run.
Restart ==
  /\ hydrated' = IF SavesCompleted THEN <<tasks>> ELSE << >>
  /\ tasks' = << >>
  /\ inputValue' = << >>
  /\ filter' = "all"
  /\ pendingTasks' = << >>
  /\ pendingInput' = << >>
  /\ pendingFilter' = << >>
  /\ loadState' = "reading"
  /\ storedTasks' = << >>
  /\ saves' = {JSONStringify(<< >>)}
  /\ warnings' = {}
  /\ completedCount' = 0
  /\ filteredTasks' = << >>
  /\ UNCHANGED <<store, events>>

Next ==
  \/ \E text \in InputValues : OnChangeText(text)
  \/ \E now \in 1..MaxClock : addTask(now)
  \/ \E id \in Ids : toggleTask(id)
  \/ \E id \in Ids : deleteTask(id)
  \/ clearCompleted
  \/ \E f \in Filters : setFilter(f)
  \/ Render
  \/ GetItemResolves
  \/ GetItemRejects
  \/ loadData
  \/ \E str \in saves : SetItemResolves(str)
  \/ \E str \in saves : SetItemRejects(str)
  \/ Restart

Spec == Init /\ [][Next]_vars

\* One process lifetime, in which React renders whenever an update is queued.
NextLive ==
  \/ \E text \in InputValues : OnChangeText(text)
  \/ \E now \in 1..MaxClock : addTask(now)
  \/ \E id \in Ids : toggleTask(id)
  \/ \E id \in Ids : deleteTask(id)
  \/ clearCompleted
  \/ \E f \in Filters : setFilter(f)
  \/ Render
  \/ GetItemResolves
  \/ GetItemRejects
  \/ loadData
  \/ \E str \in saves : SetItemResolves(str)
  \/ \E str \in saves : SetItemRejects(str)

LiveSpec == Init /\ [][NextLive]_vars /\ WF_vars(Render)

\* The lists of at most MaxList tasks a process can have saved.
StoredLists ==
  UNION {[1..n -> {TodoItem(id, <<"a">>, c) : id \in Ids, c \in BOOLEAN}] :
           n \in 0..MaxList}

\* A process that has hydrated from a store holding a saved list and is at
\* rest: nothing is queued and nothing is in flight.
ViewInit ==
  /\ tasks \in StoredLists
  /\ inputValue = << >>
  /\ filter = "all"
  /\ pendingTasks = << >>
  /\ pendingInput = << >>
  /\ pendingFilter = << >>
  /\ store = [k \in {STORAGE_KEY} |-> <<JSONStringify(tasks)>>]
  /\ loadState = "done"
  /\ storedTasks = << >>
  /\ saves = {}
  /\ warnings = {}
  /\ events = 0
  /\ hydrated = << >>
  /\ completedCount = CountCompleted(tasks)
  /\ filteredTasks = tasks

\* The user looks at the list: filters it and checks tasks off.
ViewNext ==
  \/ \E f \in Filters : setFilter(f)
  \/ \E id \in Ids : toggleTask(id)
  \/ Render

ViewSpec == ViewInit /\ [][ViewNext]_vars

\* The first render of a process whose store holds a string the application
\* cannot use: one that is not JSON, or one that is JSON but not a task list.
MalformedInit ==
  /\ tasks = << >>
  /\ inputValue = << >>
  /\ filter = "all"
  /\ pendingTasks = << >>
  /\ pendingInput = << >>
  /\ pendingFilter = << >>
  /\ store \in {[k \in {STORAGE_KEY} |-> <<CorruptString>>],
                [k \in {STORAGE_KEY} |-> <<MalformedListString>>]}
  /\ loadState = "reading"
  /\ storedTasks = << >>
  /\ saves = {JSONStringify(<< >>)}
  /\ warnings = {}
  /\ events = 0
  /\ hydrated = << >>
  /\ completedCount = 0
  /\ filteredTasks = << >>

MalformedSpec == MalformedInit /\ [][NextLive]_vars

\* ------------------------------------------------------------- properties

TaskIds(ts) == {ts[i].id : i \in 1..Len(ts)}

\* A render that folds a call of addTask, toggleTask, deleteTask or
\* clearCompleted into the list and changes it.
AppliesMutation ==
  /\ Render
  /\ \E i \in 1..Len(pendingTasks) : pendingTasks[i].kind # "set"
  /\ tasks' # tasks

\* C1: no mutation is applied to the in-memory task list while the load from
\* storage is still pending.
C1_NoMutationWhileLoading ==
  [][loadState # "done" => ~AppliesMutation]_vars

\* C2: when the previous process stopped with every save completed, list L
\* and L in the store, and this process has finished hydrating without a
\* mutation of its own, its list is L.
C2_PersistsAcrossRestart ==
  (/\ hydrated # << >>
   /\ loadState = "done"
   /\ LoadWarning \notin warnings
   /\ pendingTasks = << >>) => tasks = hydrated[1]

\* C3: once the load is done, no update is queued and every save has
\* completed without a failure, the store holds the serialization of the
\* current list.
C3_StoreMatchesTasks ==
  (/\ loadState = "done"
   /\ pendingTasks = << >>
   /\ saves = {}
   /\ SaveWarning \notin warnings) =>
     store[STORAGE_KEY] = <<JSONStringify(tasks)>>

\* C4: a queued mutation leads to a state in which it is part of the
\* committed list and a save of that list has been issued.
C4_MutationLeadsToSave ==
  (pendingTasks # << >>) ~>
     (pendingTasks = << >> /\ JSONStringify(tasks) \in saves)

C4_Witness ==
  /\ tasks # << >>
  /\ pendingTasks = << >>
  /\ JSONStringify(tasks) \in saves

\* C5: no two tasks of the in-memory list have the same id.
C5_UniqueIds ==
  \A i, j \in 1..Len(tasks) : i # j => tasks[i].id # tasks[j].id

\* C6: a call of addTask whose trimmed input s is not empty makes the list
\* one longer: the new task has title s, is not completed and comes first,
\* and the tasks there before follow it unchanged.
C6_AddTaskPrepends ==
  [][\A now \in 1..MaxClock :
       (addTask(now) /\ Trim(inputValue) # << >>) =>
         /\ Len(NextTasks') = Len(NextTasks) + 1
         /\ NextTasks'[1].title = Trim(inputValue)
         /\ NextTasks'[1].completed = FALSE
         /\ Tail(NextTasks') = NextTasks]_vars

C6_Witness ==
  /\ Len(tasks) = 2
  /\ tasks[1] = TodoItem(NewId(2), <<"b">>, FALSE)
  /\ tasks[2].title = <<"a">>

\* C7: a call of addTask with an empty or blank input changes neither the
\* list nor the queued updates, logs nothing and issues no save.
C7_BlankAddIsNoOp ==
  [][\A now \in 1..MaxClock :
       (addTask(now) /\ Trim(inputValue) = << >>) =>
         UNCHANGED <<tasks, inputValue, pendingTasks, pendingInput, saves,
                     store, warnings>>]_vars

C7_Witness ==
  /\ inputValue = <<" ">>
  /\ events = MaxEvents
  /\ tasks = << >>
  /\ pendingTasks = << >>
  /\ pendingInput = << >>
  /\ saves = {}
  /\ loadState = "done"
  /\ store[STORAGE_KEY] = <<JSONStringify(<< >>)>>

\* C8: toggleTask(t.id) for a task t of the list flips t.completed and
\* changes nothing else in the list.
C8_ToggleFlipsOnlyOne ==
  [][\A id \in Ids :
       toggleTask(id) =>
         \A i \in 1..Len(NextTasks) :
           NextTasks[i].id = id =>
             NextTasks' = [NextTasks EXCEPT ![i].completed = ~@]]_vars

\* C9: toggleTask(id) twice in succession restores the list.
C9_ToggleTwiceRestores ==
  \A id \in Ids :
    ApplyAll(<<ToggleUpdate(id), ToggleUpdate(id)>>, tasks) = tasks

C9_Witness ==
  \E id \in TaskIds(tasks) :
    pendingTasks = <<ToggleUpdate(id), ToggleUpdate(id)>>

\* C10: toggleTask or deleteTask with an id that no task of the list has
\* leaves the list as it is and logs nothing.
C10_UnknownIdIsNoOp ==
  [][\A id \in Ids :
       ((toggleTask(id) \/ deleteTask(id)) /\ id \notin TaskIds(NextTasks)) =>
         (NextTasks' = NextTasks /\ warnings' = warnings)]_vars

C10_Witness ==
  \E id \in TaskIds(tasks) :
    pendingTasks = <<DeleteUpdate(id), ToggleUpdate(id)>>

\* a is b with some elements left out, the others in their order.
RECURSIVE IsSubseq(_, _)
IsSubseq(a, b) ==
  IF a = << >> THEN TRUE
  ELSE IF b = << >> THEN FALSE
  ELSE IF Head(a) = Head(b) THEN IsSubseq(Tail(a), Tail(b))
  ELSE IsSubseq(a, Tail(b))

\* C11: deleteTask(id) removes the one task with that id or none: the list
\* gets shorter by 0 or 1 and the other tasks stay, unchanged and in order.
C11_DeleteRemovesAtMostOne ==
  [][\A id \in Ids :
       deleteTask(id) =>
         /\ Len(NextTasks) - Len(NextTasks') \in {0, 1}
         /\ IsSubseq(NextTasks', NextTasks)
         /\ id \notin TaskIds(NextTasks')]_vars

\* C12: after clearCompleted no task is completed, the tasks that were
\* active are all there, unchanged and in their order, and a list without a
\* completed task is left as it is.
C12_ClearRemovesCompleted ==
  LET before == NextTasks
      after  == ApplyAll(Append(pendingTasks, ClearUpdate), tasks)
  IN /\ \A i \in 1..Len(after) : ~after[i].completed
     /\ IsSubseq(after, before)
     /\ Len(after) = Cardinality({i \in 1..Len(before) : ~before[i].completed})
     /\ (\A i \in 1..Len(before) : ~before[i].completed) => after = before

C12_Witness ==
  /\ \E i \in 1..Len(tasks) : tasks[i].completed
  /\ pendingTasks = <<ClearUpdate>>

Positions(ts, c) == {i \in 1..Len(ts) : ts[i].completed = c}

\* view holds exactly the tasks of ts with flag c, in the order of ts.
IsViewOf(view, ts, c) ==
  /\ IsSubseq(view, ts)
  /\ Len(view) = Cardinality(Positions(ts, c))
  /\ \A i \in 1..Len(view) : view[i].completed = c

\* The filtered view of the last render is that of the current list and
\* filter.
FilteredViewIsCurrent ==
  /\ filter = "all" => filteredTasks = tasks
  /\ filter = "active" => IsViewOf(filteredTasks, tasks, FALSE)
  /\ filter = "completed" => IsViewOf(filteredTasks, tasks, TRUE)
  /\ IsSubseq(filteredTasks, tasks)

\* C14: the filtered view is the whole list under All, the tasks not
\* completed under Active and the completed ones under Completed, always in
\* the order of the list; a render that only computes the view again leaves
\* the list as it is.
C14_FilteredViewFollows ==
  [][/\ FilteredViewIsCurrent'
     /\ (Render /\ pendingTasks = << >>) => tasks' = tasks]_vars

C14_Witness ==
  /\ filter = "active"
  /\ Len(tasks) = 3
  /\ Len(filteredTasks) = 2
  /\ filteredTasks[1] # tasks[1]

\* Every mutation handler can run now.
MutationsEnabled ==
  /\ \A now \in 1..MaxClock : ENABLED addTask(now)
  /\ \A id \in Ids : ENABLED toggleTask(id)
  /\ \A id \in Ids : ENABLED deleteTask(id)
  /\ ENABLED clearCompleted

\* C16: a save that fails changes neither the list nor the filter nor any
\* queued update, writes nothing, is only logged, and is not issued again;
\* and while saves are in flight every mutation can still be called and a
\* queued mutation can still be rendered.
C16_FailedSaveIsForgotten ==
  [][/\ \A str \in saves : SetItemRejects(str) =>
          /\ UNCHANGED <<tasks, filter, inputValue, pendingTasks, pendingInput,
                         pendingFilter, store, memos>>
          /\ saves' = saves \ {str}
          /\ warnings' = warnings \cup {SaveWarning}
     /\ (saves # {} /\ events < MaxEvents) => MutationsEnabled
     /\ (saves # {} /\ pendingTasks # << >>) => ENABLED Render]_vars

C16_Witness ==
  /\ SaveWarning \in warnings
  /\ store[STORAGE_KEY] = << >>
  /\ tasks # << >>
  /\ pendingTasks # << >>
  /\ saves = {}

\* C17: setFilter leaves the list, the queued list updates, the writes in
\* flight and the store as they are; the render of a filter change alone
\* changes no task and issues no write; a write carries the list and nothing
\* else; and a process starts with the filter All.
C17_SetFilterOnlyFilters ==
  [][/\ \A f \in Filters : setFilter(f) =>
          /\ UNCHANGED <<tasks, pendingTasks, saves, store>>
          /\ NextTasks' = NextTasks
     /\ (Render /\ pendingTasks = << >>) =>
          /\ UNCHANGED <<tasks, saves, store>>
          /\ pendingFilter # << >> => filter' = pendingFilter[1]
     /\ Render => saves' \ saves \subseteq {JSONStringify(tasks')}
     /\ Restart => (filter' = "all" /\ pendingFilter' = << >>)]_vars

C17_Witness ==
  /\ filter = "completed"
  /\ pendingFilter = << >>
  /\ tasks # << >>
  /\ saves = {}
  /\ store[STORAGE_KEY] = <<JSONStringify(tasks)>>

\* The elements of ts at the positions in keep, in the order of ts.
RECURSIVE Keep(_, _)
Keep(ts, keep) ==
  IF ts = << >> THEN << >>
  ELSE LET rest == Keep(Tail(ts), {i - 1 : i \in keep \ {1}})
       IN  IF 1 \in keep THEN <<Head(ts)>> \o rest ELSE rest

\* What one mutation call makes of the list ts, as the contract states it.
SequentialResult(u, ts) ==
  CASE u.kind = "add" ->
         [i \in 1..(Len(ts) + 1) |->
            IF i = 1 THEN [id |-> u.id, title |-> u.title, completed |-> FALSE]
            ELSE ts[i - 1]]
    [] u.kind = "toggle" ->
         [i \in 1..Len(ts) |->
            [id |-> ts[i].id, title |-> ts[i].title,
             completed |-> (ts[i].completed # (ts[i].id = u.id))]]
    [] u.kind = "delete" -> Keep(ts, {i \in 1..Len(ts) : ts[i].id # u.id})
    [] u.kind = "clear" -> Keep(ts, {i \in 1..Len(ts) : ~ts[i].completed})

\* The calls of queue made one after another, each on the result of the one
\* before, starting from ts.
RECURSIVE SequentialAll(_, _)
SequentialAll(queue, ts) ==
  IF queue = << >> THEN ts
  ELSE SequentialResult(queue[Len(queue)],
                        SequentialAll(SubSeq(queue, 1, Len(queue) - 1), ts))

\* The mutation calls the user can make next.
MutationCalls ==
  {AddUpdate(TodoItem(NewId(now), <<"a">>, FALSE)) : now \in 1..MaxClock}
    \cup {ToggleUpdate(id) : id \in Ids}
    \cup {DeleteUpdate(id) : id \in Ids}
    \cup {ClearUpdate}

OnlyMutations(queue) == \A i \in 1..Len(queue) : queue[i].kind # "set"

\* C18: whatever mutation calls are queued and whichever is made next, the
\* list the next render commits is the list the calls give when they are made
\* one after another, in call order, on the committed list.
C18_MutationsApplyInOrder ==
  OnlyMutations(pendingTasks) =>
    \A u \in MutationCalls :
      ApplyAll(Append(pendingTasks, u), tasks)
        = SequentialAll(Append(pendingTasks, u), tasks)

C18_Witness ==
  /\ Len(pendingTasks) = 2
  /\ pendingTasks[1].kind = "add"
  /\ pendingTasks[2].kind = "toggle"
  /\ pendingTasks[2].id = pendingTasks[1].id
  /\ Len(NextTasks) = Len(tasks) + 1
  /\ NextTasks[1].completed

\* Every title of ts is non-empty and has no blank at either end.
TitlesTrimmed(ts) ==
  \A i \in 1..Len(ts) :
    LET title == ts[i].title
    IN  title # << >> /\ title[1] # " " /\ title[Len(title)] # " "

\* The <<id, title>> pairs of ts, in order.
Identities(ts) == [i \in 1..Len(ts) |-> <<ts[i].id, ts[i].title>>]

\* C19: every task of the list, committed or about to be, has a non-empty
\* title with no blank at either end; and whichever mutation is called next,
\* the tasks that were in the list before it and are still there have the id
\* and title they had, in the same order (a toggle keeps them all).
C19_TitlesTrimmedIdsFixed ==
  /\ TitlesTrimmed(tasks)
  /\ TitlesTrimmed(NextTasks)
  /\ \A u \in MutationCalls :
       LET after == ApplyUpdate(u, NextTasks)
           old   == IF u.kind = "add" THEN Tail(after) ELSE after
       IN  /\ IsSubseq(Identities(old), Identities(NextTasks))
           /\ u.kind \in {"add", "toggle"} =>
                Identities(old) = Identities(NextTasks)

C19_Witness ==
  /\ inputValue = << >>
  /\ \E i \in 1..Len(tasks) : tasks[i].title = <<"b">> /\ tasks[i].completed

\* The queued call at position k removes the tasks of id from the list.
RemovesId(k, id) ==
  \/ pendingTasks[k] = DeleteUpdate(id)
  \/ /\ pendingTasks[k] = ClearUpdate
     /\ LET before == ApplyAll(SubSeq(pendingTasks, 1, k - 1), tasks)
        IN  \E i \in 1..Len(before) : before[i].id = id /\ before[i].completed

\* C20: within one process, an id of the committed list is still in the list
\* after every step, unless the step is a render that applies a deleteTask
\* call with that id, or a clearCompleted call made while a task with that
\* id was completed.
C20_TasksLeaveOnlyByDeleteOrClear ==
  [][\A id \in TaskIds(tasks) \ TaskIds(tasks') :
       \E k \in 1..Len(pendingTasks) : RemovesId(k, id)]_vars

\* C15: when the load fails or the stored string is not a valid task list,
\* the list after hydration is empty: a process that has finished loading
\* and rendering, and whose user has done nothing, shows no task.
C15_HydrationFallsBackToEmpty ==
  (events = 0 /\ loadState = "done" /\ pendingTasks = << >>) => tasks = << >>

====
